---- MODULE Spec2Model ----
(***************************************************************************)
(* Model of the client-side core of the agent pipeline:                    *)
(*   - PipelineManager (frontend/js/pipeline.js): sequential stage         *)
(*     enablement, per-stage configuration, estimate, payload;             *)
(*   - WebSocketManager (frontend/js/api.js): keyed push connections;      *)
(*   - useWebSocket (frontend/src/hooks/useWebSocket.js): one reconnecting   *)
(*     push connection with subscribers;                                     *)
(*   - the pipeline page (frontend/js/pipeline.js): toggles, config saves    *)
(*     and submission on top of the PipelineManager singleton;               *)
(*   - the Landing page (React): toggleAgent on component state.             *)
(***************************************************************************)
EXTENDS Integers, Sequences, FiniteSets, TLC

(***************************************************************************)
(* Bounds of the model                                                     *)
(***************************************************************************)
\* setAgentConfig calls explored since construction or the last reset
MaxConfigCalls == 1
\* WebSocket objects created by WebSocketManager._connect in one run
MaxSockets == 3
\* WebSocket objects one useWebSocket instance creates
MaxHookSockets == 3
\* the maxReconnectAttempts option of useWebSocket (the source's default is 5)
maxReconnectAttempts == 2
\* handleSubmit calls that reach the submission API
MaxSubmissions == 2
\* toggleAgent calls of the Landing page between two renders
MaxPending == 3

(***************************************************************************)
(* Program constants                                                       *)
(***************************************************************************)
AGENT_ORDER == <<"scribe", "architect", "forge", "herald", "sentinel", "phoenix">>

\* cost is kept in hundredths (0.05 -> 5)
TOKEN_ESTIMATES ==
    [scribe    |-> [tokens |-> 2500,  cost |-> 5],
     architect |-> [tokens |-> 4000,  cost |-> 8],
     forge     |-> [tokens |-> 12000, cost |-> 20],
     herald    |-> [tokens |-> 1500,  cost |-> 2],
     sentinel  |-> [tokens |-> 3000,  cost |-> 6],
     phoenix   |-> [tokens |-> 1000,  cost |-> 1]]

Agents == {AGENT_ORDER[i] : i \in 1..Len(AGENT_ORDER)}

\* Array.prototype.indexOf on AGENT_ORDER (0-based, -1 when absent)
IndexOf(agentId) ==
    IF agentId \in Agents
    THEN (CHOOSE i \in 1..Len(AGENT_ORDER) : AGENT_ORDER[i] = agentId) - 1
    ELSE -1

\* String.prototype.toUpperCase on the stage names
ToUpperCase(s) ==
    CASE s = "scribe"    -> "SCRIBE"
      [] s = "architect" -> "ARCHITECT"
      [] s = "forge"     -> "FORGE"
      [] s = "herald"    -> "HERALD"
      [] s = "sentinel"  -> "SENTINEL"
      [] s = "phoenix"   -> "PHOENIX"
      [] OTHER           -> s

(***************************************************************************)
(* JavaScript values of config fields                                      *)
(***************************************************************************)
\* the value read from a key an object does not have
Undefined == "<undefined>"

\* a config object is a function from the keys it has to their values
Get(config, key) == IF key \in DOMAIN config THEN config[key] ELSE Undefined

\* truthiness of a string-or-undefined value
Truthy(v) == v # Undefined /\ v # ""

\* String.prototype.trim on the string values of the model
Trim(v) == IF v = " " THEN "" ELSE v

\* object spread {...a, ...b}: keys of both, b wins
Spread(a, b) ==
    [k \in (DOMAIN a) \cup (DOMAIN b) |-> IF k \in DOMAIN b THEN b[k] ELSE a[k]]

\* a[key] = value on an object
SetKey(obj, key, value) ==
    [k \in (DOMAIN obj) \cup {key} |-> IF k = key THEN value ELSE obj[k]]

\* the string-valued keys a caller stores per stage, with the values tried
ConfigKeys(agentId) ==
    CASE agentId = "scribe"    -> {"requirement_text"}
      [] agentId = "architect" -> {}
      [] agentId = "forge"     -> {"repo_path", "target_branch"}
      [] agentId = "herald"    -> {"repo_url"}
      [] agentId = "sentinel"  -> {}
      [] agentId = "phoenix"   -> {"release_branch"}

KeyValues(key) ==
    IF key = "requirement_text" THEN {"", " ", "x"} ELSE {"", "x"}

\* the partial config objects handed to setAgentConfig
StringConfigs(agentId) ==
    UNION {{f \in [S -> {"", " ", "x"}] : \A k \in S : f[k] \in KeyValues(k)} :
            S \in SUBSET ConfigKeys(agentId)}

PartialConfigs(agentId) ==
    StringConfigs(agentId)
      \cup {SetKey(f, "enabled", b) : f \in StringConfigs(agentId), b \in BOOLEAN}

(***************************************************************************)
(* State                                                                   *)
(***************************************************************************)
VARIABLES
    enabledAgents,   \* PipelineManager.enabledAgents (a Set)
    agentConfigs,    \* PipelineManager.agentConfigs (stage -> config object)
    configCalls,     \* setAgentConfig calls since construction / reset
    last,            \* the last call made on the manager: its arguments, the
                     \* enabled set it found (pre) and what it returned
    sockets,         \* every WebSocket object _connect has created, in creation
                     \* order: its key, readyState and onMessage callback
    connections,     \* WebSocketManager.connections (key -> {ws, pingInterval})
    intervals,       \* the keep-alive timers setInterval scheduled and nobody
                     \* cleared, each named by the socket it pings
    wsLast,          \* the last frame or timer event a WebSocketManager socket
                     \* handled: the callback it invoked, whether it sent a ping
    cut,             \* the sockets that existed under a key when a
                     \* disconnect(key) call returned
    hookSockets,     \* readyState of every WebSocket object a useWebSocket
                     \* instance has created, in creation order
    wsRef,           \* wsRef.current: a socket, or 0 for null
    connected,       \* the connected state of the hook
    reconnectAttemptsRef,  \* reconnectAttemptsRef.current
    reconnectTimeoutRef,   \* reconnectTimeoutRef.current: a timer id, 0 for null
    timeouts,        \* the reconnect timers setTimeout scheduled that neither
                     \* fired nor were cleared, each named by the socket whose
                     \* close handler scheduled it
    subscribersRef,  \* subscribersRef.current (a Set), in insertion order
    hookLast,        \* the last step of the hook when it was a connect(),
                     \* sendMessage() or unsubscribe() call of the caller or a
                     \* message event; for a message event, the subscribers its
                     \* handler invoked, in order
    disconnected,    \* disconnect() was called and connect() was not called by
                     \* the caller since
    failedAttempts,  \* sockets that closed without ever opening since the last
                     \* open event
    subscribedAtClose,  \* the subscribers that were registered at the last close
                        \* event and have not been removed since
    socketsAtClose,  \* the number of sockets the hook had created at the last
                     \* close event
    nameInput,       \* value of the #pipeline-name input
    submitDisabled,  \* disabled property of the #submit-pipeline button
    submissions,     \* the handleSubmit calls that reached the API, in order:
                     \* where each one stands, the name and the enabled stages
                     \* of its payload, whether the manager was edited since
    landingEnabledAgents,   \* Landing: the enabledAgents state React holds
    renderedEnabledAgents,  \* Landing: the enabledAgents value the closures of
                            \* the current render see
    updaters,        \* Landing: the setEnabledAgents updaters queued since the
                     \* current render, each named by the stage it toggles
    mounted          \* Landing: the component has rendered once

pmVars == <<enabledAgents, agentConfigs, configCalls, last>>
wsVars == <<sockets, connections, intervals, wsLast, cut>>
hookVars == <<hookSockets, wsRef, connected, reconnectAttemptsRef,
              reconnectTimeoutRef, timeouts, subscribersRef, hookLast,
              disconnected, failedAttempts, subscribedAtClose,
              socketsAtClose>>
pageVars == <<nameInput, submitDisabled, submissions>>
landingVars == <<landingEnabledAgents, renderedEnabledAgents, updaters, mounted>>
vars == <<enabledAgents, agentConfigs, configCalls, last,
          sockets, connections, intervals, wsLast, cut,
          hookSockets, wsRef, connected, reconnectAttemptsRef,
          reconnectTimeoutRef, timeouts, subscribersRef, hookLast,
          disconnected, failedAttempts, subscribedAtClose, socketsAtClose,
          nameInput, submitDisabled, submissions,
          landingEnabledAgents, renderedEnabledAgents, updaters, mounted>>

\* the record every constructor / reset iteration stores: { enabled: false }
EmptyConfig == [k \in {"enabled"} |-> FALSE]

\* PipelineManager.constructor
Constructor ==
    [enabledAgents |-> {},
     agentConfigs  |-> [a \in Agents |-> EmptyConfig]]

NoRet == [void |-> TRUE]

\* no frame or timer event handled (yet, or since the last call or socket event)
NoEvent == [ev |-> "none", ws |-> 0, frame |-> "", invoked |-> "", sent |-> FALSE]

\* the callbacks components register with subscribe
Subscribers == {"s1", "s2"}

\* a step of the hook that is not a message event
HookEvent(ev) == [ev |-> ev, ws |-> 0, frame |-> "", delivered |-> <<>>]

Init ==
    /\ enabledAgents = Constructor.enabledAgents
    /\ agentConfigs = Constructor.agentConfigs
    /\ configCalls = 0
    /\ last = [op |-> "constructor", agentId |-> "", arg |-> FALSE, pre |-> {},
               ret |-> NoRet]
    /\ sockets = <<>>
    /\ connections = [k \in {} |-> 0]
    /\ intervals = {}
    /\ wsLast = NoEvent
    /\ cut = {}
    /\ hookSockets = <<>>
    /\ wsRef = 0
    /\ connected = FALSE
    /\ reconnectAttemptsRef = 0
    /\ reconnectTimeoutRef = 0
    /\ timeouts = {}
    /\ subscribersRef = <<>>
    /\ hookLast = HookEvent("none")
    /\ disconnected = FALSE
    /\ failedAttempts = 0
    /\ subscribedAtClose = {}
    /\ socketsAtClose = 0
    /\ nameInput = ""
    /\ submitDisabled = TRUE
    /\ submissions = <<>>
    /\ landingEnabledAgents = {}
    /\ renderedEnabledAgents = {}
    /\ updaters = <<>>
    /\ mounted = FALSE

(***************************************************************************)
(* PipelineManager: operations as functions of the manager's fields        *)
(***************************************************************************)
\* the loop of setAgentEnabled over i = 0 .. agentIndex-1: the first index whose
\* stage is not enabled, -1 when the loop runs to its end
RECURSIVE FirstMissing(_, _, _)
FirstMissing(en, i, agentIndex) ==
    IF i >= agentIndex THEN -1
    ELSE IF AGENT_ORDER[i + 1] \notin en THEN i
    ELSE FirstMissing(en, i + 1, agentIndex)

\* the stages the disable loop visits: i = agentIndex .. AGENT_ORDER.length-1
DisableRange(agentIndex) ==
    {AGENT_ORDER[i + 1] : i \in agentIndex..(Len(AGENT_ORDER) - 1)}

\* setAgentEnabled, with a disable branch that only removes the stage itself
setAgentEnabledNoCascade(en, cfgs, agentId, enabled) ==
    LET agentIndex == IndexOf(agentId)
        missing == FirstMissing(en, 0, agentIndex)
    IN  IF enabled
        THEN IF missing # -1
             THEN [enabledAgents |-> en, agentConfigs |-> cfgs,
                   ret |-> [success |-> FALSE,
                            error |-> "Please enable "
                                        \o ToUpperCase(AGENT_ORDER[missing + 1])
                                        \o " first"]]
             ELSE [enabledAgents |-> en \cup {agentId},
                   agentConfigs |-> [cfgs EXCEPT ![agentId] = SetKey(@, "enabled", TRUE)],
                   ret |-> [success |-> TRUE]]
        ELSE [enabledAgents |-> en \ {agentId},
              agentConfigs |-> [cfgs EXCEPT ![agentId] = SetKey(@, "enabled", FALSE)],
              ret |-> [success |-> TRUE]]

\* setAgentEnabled, adding the stage to the set before the prerequisite check
setAgentEnabledEager(en, cfgs, agentId, enabled) ==
    LET agentIndex == IndexOf(agentId)
        missing == FirstMissing(en, 0, agentIndex)
    IN  IF enabled
        THEN IF missing # -1
             THEN [enabledAgents |-> en \cup {agentId},
                   agentConfigs |-> [cfgs EXCEPT ![agentId] = SetKey(@, "enabled", TRUE)],
                   ret |-> [success |-> FALSE,
                            error |-> "Please enable "
                                        \o ToUpperCase(AGENT_ORDER[missing + 1])
                                        \o " first"]]
             ELSE [enabledAgents |-> en \cup {agentId},
                   agentConfigs |-> [cfgs EXCEPT ![agentId] = SetKey(@, "enabled", TRUE)],
                   ret |-> [success |-> TRUE]]
        ELSE [enabledAgents |-> en \ DisableRange(agentIndex),
              agentConfigs |-> [a \in Agents |->
                                  IF a \in DisableRange(agentIndex)
                                  THEN SetKey(cfgs[a], "enabled", FALSE)
                                  ELSE cfgs[a]],
              ret |-> [success |-> TRUE]]

\* setAgentEnabled, checking only the stage right before agentId
setAgentEnabledPrevOnly(en, cfgs, agentId, enabled) ==
    LET agentIndex == IndexOf(agentId)
        missing == IF agentIndex > 0 /\ AGENT_ORDER[agentIndex] \notin en
                   THEN agentIndex - 1 ELSE -1
    IN  IF enabled
        THEN IF missing # -1
             THEN [enabledAgents |-> en, agentConfigs |-> cfgs,
                   ret |-> [success |-> FALSE,
                            error |-> "Please enable "
                                        \o ToUpperCase(AGENT_ORDER[missing + 1])
                                        \o " first"]]
             ELSE [enabledAgents |-> en \cup {agentId},
                   agentConfigs |-> [cfgs EXCEPT ![agentId] = SetKey(@, "enabled", TRUE)],
                   ret |-> [success |-> TRUE]]
        ELSE [enabledAgents |-> en \ DisableRange(agentIndex),
              agentConfigs |-> [a \in Agents |->
                                  IF a \in DisableRange(agentIndex)
                                  THEN SetKey(cfgs[a], "enabled", FALSE)
                                  ELSE cfgs[a]],
              ret |-> [success |-> TRUE]]

\* PipelineManager.setAgentEnabled: the fields after the call and the value returned
setAgentEnabled(en, cfgs, agentId, enabled) ==
    LET agentIndex == IndexOf(agentId)
        missing == FirstMissing(en, 0, agentIndex)
    IN  IF enabled
        THEN IF missing # -1
             THEN [enabledAgents |-> en, agentConfigs |-> cfgs,
                   ret |-> [success |-> FALSE,
                            error |-> "Please enable "
                                        \o ToUpperCase(AGENT_ORDER[missing + 1])
                                        \o " first"]]
             ELSE [enabledAgents |-> en \cup {agentId},
                   agentConfigs |-> [cfgs EXCEPT ![agentId] = SetKey(@, "enabled", TRUE)],
                   ret |-> [success |-> TRUE]]
        ELSE [enabledAgents |-> en \ DisableRange(agentIndex),
              agentConfigs |-> [a \in Agents |->
                                  IF a \in DisableRange(agentIndex)
                                  THEN SetKey(cfgs[a], "enabled", FALSE)
                                  ELSE cfgs[a]],
              ret |-> [success |-> TRUE]]

\* canEnableAgent without the first-stage shortcut applied to the right stage:
\* it looks at the stage itself instead of the one before it
canEnableAgentSelf(en, agentId) ==
    LET agentIndex == IndexOf(agentId)
    IN  IF agentIndex = 0 THEN TRUE
        ELSE AGENT_ORDER[agentIndex + 1] \in en

\* PipelineManager.canEnableAgent
canEnableAgent(en, agentId) ==
    LET agentIndex == IndexOf(agentId)
    IN  IF agentIndex = 0 THEN TRUE
        ELSE AGENT_ORDER[agentIndex] \in en

\* PipelineManager.setAgentConfig: the config map after the call
setAgentConfig(cfgs, agentId, config) ==
    [cfgs EXCEPT ![agentId] = Spread(cfgs[agentId], config)]

\* PipelineManager.getAgentConfig
getAgentConfig(cfgs, agentId) == cfgs[agentId]

\* PipelineManager.isAgentConfigured
isAgentConfigured(cfgs, agentId) ==
    LET config == cfgs[agentId]
    IN  CASE agentId = "scribe" ->
               Truthy(Get(config, "requirement_text"))
                 /\ Truthy(Trim(Get(config, "requirement_text")))
          [] agentId = "architect" -> TRUE
          [] agentId = "forge" ->
               Truthy(Get(config, "repo_path")) /\ Truthy(Get(config, "target_branch"))
          [] agentId = "herald" -> Truthy(Get(config, "repo_url"))
          [] agentId = "sentinel" -> TRUE
          [] agentId = "phoenix" -> Truthy(Get(config, "release_branch"))
          [] OTHER -> FALSE

\* PipelineManager.getEnabledAgents
getEnabledAgents(en) == SelectSeq(AGENT_ORDER, LAMBDA a : a \in en)

\* Number.prototype.toFixed(2) of an amount held in hundredths: the decimal string
Digit(d) == ToString(d)

ToFixed2(hundredths) ==
    ToString(hundredths \div 100) \o "."
      \o Digit((hundredths % 100) \div 10) \o Digit(hundredths % 10)

\* the for-of loop of calculateEstimate from position i of enabledList on, with the
\* accumulators it carries
RECURSIVE EstimateLoop(_, _, _, _, _)
EstimateLoop(enabledList, i, estimates, totalTokens, totalCost) ==
    IF i > Len(enabledList)
    THEN [agents |-> estimates, totalTokens |-> totalTokens, totalCost |-> totalCost]
    ELSE LET agent == enabledList[i]
             est == TOKEN_ESTIMATES[agent]
         IN  EstimateLoop(enabledList, i + 1,
                          Append(estimates,
                                 [agent |-> agent, tokens |-> est.tokens, cost |-> est.cost]),
                          totalTokens + est.tokens,
                          totalCost + est.cost)

\* calculateEstimate looping over every stage of AGENT_ORDER
calculateEstimateAll(en) ==
    LET r == EstimateLoop(AGENT_ORDER, 1, <<>>, 0, 0)
    IN  [agents |-> r.agents, totalTokens |-> r.totalTokens,
         totalCost |-> ToFixed2(r.totalCost)]

\* PipelineManager.calculateEstimate
calculateEstimate(en) ==
    LET r == EstimateLoop(getEnabledAgents(en), 1, <<>>, 0, 0)
    IN  [agents |-> r.agents, totalTokens |-> r.totalTokens,
         totalCost |-> ToFixed2(r.totalCost)]

\* isReadyToSubmit without the empty-list check
isReadyToSubmitNoEmptyCheck(en, cfgs) ==
    LET enabled == getEnabledAgents(en)
    IN  \A i \in 1..Len(enabled) : isAgentConfigured(cfgs, enabled[i])

\* PipelineManager.isReadyToSubmit
isReadyToSubmit(en, cfgs) ==
    LET enabled == getEnabledAgents(en)
    IN  IF Len(enabled) = 0 THEN FALSE
        ELSE \A i \in 1..Len(enabled) : isAgentConfigured(cfgs, enabled[i])

\* value || fallback on a string-or-undefined value
Or(v, fallback) == IF Truthy(v) THEN v ELSE fallback

\* (value || '').split(',').map(s => s.trim()).filter(Boolean) on the model's
\* comma-free strings
SplitTrimFilter(v) ==
    LET s == Trim(Or(v, "")) IN IF s = "" THEN <<>> ELSE <<s>>

\* parseInt(value) || fallback: none of the model's strings starts with a digit,
\* so parseInt gives NaN
ParseIntOr(v, fallback) == fallback

\* config.changelog_enabled !== false
NotFalse(config, key) ==
    IF key \in DOMAIN config THEN config[key] # FALSE ELSE TRUE

_buildScribeConfig(en, cfgs) ==
    LET config == cfgs["scribe"]
    IN  [enabled |-> "scribe" \in en,
         model |-> Or(Get(config, "model"), ""),
         requirement_text |-> Or(Get(config, "requirement_text"), ""),
         project_context |-> Or(Get(config, "project_context"), ""),
         output_format |-> Or(Get(config, "output_format"), "markdown")]

_buildArchitectConfig(en, cfgs) ==
    LET config == cfgs["architect"]
    IN  [enabled |-> "architect" \in en,
         model |-> Or(Get(config, "model"), ""),
         tech_stack |-> SplitTrimFilter(Get(config, "tech_stack")),
         architecture_notes |-> Or(Get(config, "architecture_notes"), ""),
         granularity |-> ParseIntOr(Get(config, "granularity"), 3)]

\* _buildForgeConfig copying the flag kept in the config record
_buildForgeConfigFromFlag(en, cfgs) ==
    LET config == cfgs["forge"]
    IN  [enabled |-> config["enabled"],
         model |-> Or(Get(config, "model"), ""),
         repo_path |-> Or(Get(config, "repo_path"), ""),
         target_branch |-> Or(Get(config, "target_branch"), ""),
         test_command |-> Or(Get(config, "test_command"), "npm test"),
         lint_command |-> Or(Get(config, "lint_command"), "npm run lint")]

_buildForgeConfig(en, cfgs) ==
    LET config == cfgs["forge"]
    IN  [enabled |-> "forge" \in en,
         model |-> Or(Get(config, "model"), ""),
         repo_path |-> Or(Get(config, "repo_path"), ""),
         target_branch |-> Or(Get(config, "target_branch"), ""),
         test_command |-> Or(Get(config, "test_command"), "npm test"),
         lint_command |-> Or(Get(config, "lint_command"), "npm run lint")]

_buildHeraldConfig(en, cfgs) ==
    LET config == cfgs["herald"]
    IN  [enabled |-> "herald" \in en,
         model |-> Or(Get(config, "model"), ""),
         git_provider |-> Or(Get(config, "git_provider"), "github"),
         repo_url |-> Or(Get(config, "repo_url"), ""),
         mr_title_template |-> Or(Get(config, "mr_title_template"), "[AUTO] {feature_name}"),
         reviewer_webhook_url |-> Or(Get(config, "reviewer_webhook_url"), ""),
         labels |-> SplitTrimFilter(Get(config, "labels"))]

_buildSentinelConfig(en, cfgs) ==
    LET config == cfgs["sentinel"]
    IN  [enabled |-> "sentinel" \in en,
         model |-> Or(Get(config, "model"), ""),
         review_criteria |-> Or(Get(config, "review_criteria"), ""),
         auto_approve_threshold |-> ParseIntOr(Get(config, "auto_approve_threshold"), 85),
         max_fix_iterations |-> ParseIntOr(Get(config, "max_fix_iterations"), 3),
         target_branch |-> Or(Get(config, "target_branch"), "develop")]

_buildPhoenixConfig(en, cfgs) ==
    LET config == cfgs["phoenix"]
    IN  [enabled |-> "phoenix" \in en,
         model |-> Or(Get(config, "model"), ""),
         release_branch |-> Or(Get(config, "release_branch"), "main"),
         chat_webhook_url |-> Or(Get(config, "chat_webhook_url"), ""),
         chat_platform |-> Or(Get(config, "chat_platform"), "slack"),
         changelog_enabled |-> NotFalse(config, "changelog_enabled"),
         notification_template |-> Or(Get(config, "notification_template"), ""),
         merge_strategy |-> Or(Get(config, "merge_strategy"), "squash")]

\* PipelineManager.buildPayload
buildPayload(en, cfgs, name, description) ==
    [name |-> name,
     description |-> description,
     agent_configs |->
        [scribe    |-> _buildScribeConfig(en, cfgs),
         architect |-> _buildArchitectConfig(en, cfgs),
         forge     |-> _buildForgeConfig(en, cfgs),
         herald    |-> _buildHeraldConfig(en, cfgs),
         sentinel  |-> _buildSentinelConfig(en, cfgs),
         phoenix   |-> _buildPhoenixConfig(en, cfgs)]]

\* reset that clears the enabled set and only the flags of the config records
resetKeepFields(en, cfgs) ==
    [enabledAgents |-> {},
     agentConfigs |-> [a \in Agents |-> SetKey(cfgs[a], "enabled", FALSE)]]

\* PipelineManager.reset: the fields after the call
reset(en, cfgs) ==
    [enabledAgents |-> {},
     agentConfigs |-> [a \in Agents |-> [k \in {"enabled"} |-> FALSE]]]

(***************************************************************************)
(* PipelineManager: the calls a client makes                               *)
(***************************************************************************)
\* the names and descriptions handed to buildPayload
Names == {"", "p"}

SetAgentEnabled(agentId, enabled) ==
    LET r == setAgentEnabled(enabledAgents, agentConfigs, agentId, enabled)
    IN  /\ enabledAgents' = r.enabledAgents
        /\ agentConfigs' = r.agentConfigs
        /\ last' = [op |-> "setAgentEnabled", agentId |-> agentId,
                    arg |-> enabled, pre |-> enabledAgents,
                    ret |-> r.ret]
        /\ UNCHANGED <<configCalls, wsVars, hookVars, pageVars, landingVars>>

CanEnableAgent(agentId) ==
    /\ last' = [op |-> "canEnableAgent", agentId |-> agentId, arg |-> FALSE,
                pre |-> enabledAgents,
                ret |-> [value |-> canEnableAgent(enabledAgents, agentId)]]
    /\ UNCHANGED <<enabledAgents, agentConfigs, configCalls, wsVars, hookVars, pageVars, landingVars>>

SetAgentConfig(agentId, config) ==
    /\ configCalls < MaxConfigCalls
    /\ agentConfigs' = setAgentConfig(agentConfigs, agentId, config)
    /\ configCalls' = configCalls + 1
    /\ last' = [op |-> "setAgentConfig", agentId |-> agentId, arg |-> FALSE,
                pre |-> enabledAgents, ret |-> NoRet]
    /\ UNCHANGED <<enabledAgents, wsVars, hookVars, pageVars, landingVars>>

CalculateEstimate ==
    /\ last' = [op |-> "calculateEstimate", agentId |-> "", arg |-> FALSE,
                pre |-> enabledAgents, ret |-> calculateEstimate(enabledAgents)]
    /\ UNCHANGED <<enabledAgents, agentConfigs, configCalls, wsVars, hookVars, pageVars, landingVars>>

IsReadyToSubmit ==
    /\ last' = [op |-> "isReadyToSubmit", agentId |-> "", arg |-> FALSE,
                pre |-> enabledAgents,
                ret |-> [value |-> isReadyToSubmit(enabledAgents, agentConfigs)]]
    /\ UNCHANGED <<enabledAgents, agentConfigs, configCalls, wsVars, hookVars, pageVars, landingVars>>

BuildPayload(name, description) ==
    /\ last' = [op |-> "buildPayload", agentId |-> "", arg |-> FALSE,
                pre |-> enabledAgents,
                ret |-> buildPayload(enabledAgents, agentConfigs, name, description)]
    /\ UNCHANGED <<enabledAgents, agentConfigs, configCalls, wsVars, hookVars, pageVars, landingVars>>

Reset ==
    LET r == reset(enabledAgents, agentConfigs)
    IN  /\ enabledAgents' = r.enabledAgents
        /\ agentConfigs' = r.agentConfigs
        /\ configCalls' = 0
        /\ last' = [op |-> "reset", agentId |-> "", arg |-> FALSE,
                    pre |-> enabledAgents, ret |-> NoRet]
        /\ UNCHANGED <<wsVars, hookVars, pageVars, landingVars>>

Next ==
    \/ \E agentId \in Agents, enabled \in BOOLEAN : SetAgentEnabled(agentId, enabled)
    \/ \E agentId \in Agents : CanEnableAgent(agentId)
    \/ \E agentId \in Agents : \E config \in PartialConfigs(agentId) :
          SetAgentConfig(agentId, config)
    \/ CalculateEstimate
    \/ IsReadyToSubmit
    \/ \E name \in Names : BuildPayload(name, "p")
    \/ Reset

Spec == Init /\ [][Next]_vars

(***************************************************************************)
(* WebSocketManager                                                        *)
(***************************************************************************)
\* the keys _connect is called with: connectToAll's 'all', connectToTask's task_<id>
WsKeys == {"all", "task_7"}

\* the onMessage callbacks callers pass
Callbacks == {"cb1", "cb2"}

\* Map.prototype.delete
MapDelete(map, key) == [k \in (DOMAIN map) \ {key} |-> map[k]]

\* WebSocket.close(): a socket that is CONNECTING or OPEN starts closing; the close
\* event comes later
WsClose(socks, ws) ==
    IF socks[ws].readyState \in {"CONNECTING", "OPEN"}
    THEN [socks EXCEPT ![ws].readyState = "CLOSING"]
    ELSE socks

\* disconnect that drops the registry entry without closing the socket
disconnectNoClose(socks, conns, ivals, key) ==
    IF key \in DOMAIN conns
    THEN [sockets |-> socks,
          intervals |-> ivals \ {conns[key].pingInterval},
          connections |-> MapDelete(conns, key)]
    ELSE [sockets |-> socks, intervals |-> ivals, connections |-> conns]

\* WebSocketManager.disconnect: the sockets, timers and registry after the call
disconnect(socks, conns, ivals, key) ==
    IF key \in DOMAIN conns
    THEN [sockets |-> WsClose(socks, conns[key].ws),
          intervals |-> ivals \ {conns[key].pingInterval},
          connections |-> MapDelete(conns, key)]
    ELSE [sockets |-> socks, intervals |-> ivals, connections |-> conns]

\* WebSocketManager._connect: disconnect(key), new WebSocket(url), setInterval,
\* connections.set(key, {ws, pingInterval})
_connect(socks, conns, ivals, key, onMessage) ==
    LET d == disconnect(socks, conns, ivals, key)
        ws == Len(d.sockets) + 1
    IN  [sockets |-> Append(d.sockets,
                            [key |-> key, readyState |-> "CONNECTING",
                             onMessage |-> onMessage]),
         intervals |-> d.intervals \cup {ws},
         connections |-> SetKey(d.connections, key, [ws |-> ws, pingInterval |-> ws])]

\* WebSocketManager.disconnectAll: disconnect applied to the keys left to visit
RECURSIVE disconnectAll(_, _, _, _)
disconnectAll(socks, conns, ivals, keys) ==
    IF keys = {}
    THEN [sockets |-> socks, intervals |-> ivals, connections |-> conns]
    ELSE LET key == CHOOSE k \in keys : TRUE
             d == disconnect(socks, conns, ivals, key)
         IN  disconnectAll(d.sockets, d.connections, d.intervals, keys \ {key})

\* ws.onclose of the socket _connect created for key: connections.delete(key)
onclose(conns, key) == MapDelete(conns, key)

\* the frames a socket receives: the heartbeat acknowledgement, a JSON message,
\* and text JSON.parse rejects
Frames == {"pong", "{\"type\":\"status_update\"}", "not json"}

\* JSON.parse(data) returns (TRUE) or throws (FALSE)
JsonParses(data) == data = "{\"type\":\"status_update\"}"

\* ws.onmessage forwarding everything JSON.parse accepts or not, the
\* acknowledgement included
onmessageForwardAll(onMessage, data) == onMessage

\* ws.onmessage handing the frame to the callback when JSON.parse rejects it
onmessageForwardRaw(onMessage, data) ==
    IF data = "pong" THEN "" ELSE onMessage

\* ws.onmessage of the socket _connect created with onMessage: the callback it
\* invokes for the frame ("" for none)
onmessage(onMessage, data) ==
    IF data = "pong" THEN ""
    ELSE IF JsonParses(data) THEN onMessage
    ELSE ""

\* the setInterval callback of the socket: TRUE when it calls ws.send('ping')
pingInterval(socks, ws) == socks[ws].readyState = "OPEN"

\* the sockets created so far under a key
SocketsOf(socks, key) == {ws \in 1..Len(socks) : socks[ws].key = key}

Connect(key, onMessage) ==
    /\ Len(sockets) < MaxSockets
    /\ LET r == _connect(sockets, connections, intervals, key, onMessage)
       IN  /\ sockets' = r.sockets
           /\ connections' = r.connections
           /\ intervals' = r.intervals
    /\ cut' = cut \cup SocketsOf(sockets, key)
    /\ wsLast' = NoEvent
    /\ UNCHANGED <<pmVars, hookVars, pageVars, landingVars>>

Disconnect(key) ==
    /\ LET r == disconnect(sockets, connections, intervals, key)
       IN  /\ sockets' = r.sockets
           /\ connections' = r.connections
           /\ intervals' = r.intervals
    /\ cut' = cut \cup SocketsOf(sockets, key)
    /\ wsLast' = NoEvent
    /\ UNCHANGED <<pmVars, hookVars, pageVars, landingVars>>

DisconnectAll ==
    /\ LET r == disconnectAll(sockets, connections, intervals, DOMAIN connections)
       IN  /\ sockets' = r.sockets
           /\ connections' = r.connections
           /\ intervals' = r.intervals
    /\ cut' = cut \cup UNION {SocketsOf(sockets, key) : key \in DOMAIN connections}
    /\ wsLast' = NoEvent
    /\ UNCHANGED <<pmVars, hookVars, pageVars, landingVars>>

\* the open event of a connecting socket (onopen only logs)
SocketOpen(ws) ==
    /\ sockets[ws].readyState = "CONNECTING"
    /\ sockets' = [sockets EXCEPT ![ws].readyState = "OPEN"]
    /\ wsLast' = NoEvent
    /\ UNCHANGED <<connections, intervals, cut, pmVars, hookVars, pageVars, landingVars>>

\* the close event of a socket: the connection failed, the peer closed it, or the
\* close handshake started by close() finished; then onclose runs
SocketClose(ws) ==
    /\ sockets[ws].readyState # "CLOSED"
    /\ sockets' = [sockets EXCEPT ![ws].readyState = "CLOSED"]
    /\ connections' = onclose(connections, sockets[ws].key)
    /\ wsLast' = NoEvent
    /\ UNCHANGED <<intervals, cut, pmVars, hookVars, pageVars, landingVars>>

\* a message event: the browser fires it only on a socket whose readyState is
\* OPEN; then onmessage runs
SocketMessage(ws, frame) ==
    /\ sockets[ws].readyState = "OPEN"
    /\ wsLast' = [ev |-> "message", ws |-> ws, frame |-> frame,
                  invoked |-> onmessage(sockets[ws].onMessage, frame),
                  sent |-> FALSE]
    /\ UNCHANGED <<sockets, connections, intervals, cut, pmVars, hookVars, pageVars, landingVars>>

\* the 25 s keep-alive timer of a socket fires (it fires until it is cleared)
PingTick(ws) ==
    /\ ws \in intervals
    /\ wsLast' = [ev |-> "tick", ws |-> ws, frame |-> "", invoked |-> "",
                  sent |-> pingInterval(sockets, ws)]
    /\ UNCHANGED <<sockets, connections, intervals, cut, pmVars, hookVars, pageVars, landingVars>>

NextWS ==
    \/ \E key \in WsKeys, onMessage \in Callbacks : Connect(key, onMessage)
    \/ \E key \in WsKeys : Disconnect(key)
    \/ DisconnectAll
    \/ \E ws \in 1..Len(sockets) : SocketOpen(ws)
    \/ \E ws \in 1..Len(sockets) : SocketClose(ws)
    \/ \E ws \in 1..Len(sockets), frame \in Frames : SocketMessage(ws, frame)
    \/ \E ws \in 1..Len(sockets) : PingTick(ws)

SpecWS == Init /\ [][NextWS]_vars

(***************************************************************************)
(* useWebSocket: one instance of the hook                                  *)
(***************************************************************************)

\* the frames a server can push on the hook's socket
HookFrames == {"{\"type\":\"task_update\"}", "null", "not json"}

\* JSON.parse(event.data): the value it returns, or that it threw
JSONParse(data) ==
    CASE data = "null" -> [threw |-> FALSE, value |-> "<null>"]
      [] data = "{\"type\":\"task_update\"}" ->
             [threw |-> FALSE, value |-> "<object task_update>"]
      [] OTHER -> [threw |-> TRUE, value |-> Undefined]

\* the onMessage option PipelineProvider passes to the hook: it reads data.type
\* first, which is a TypeError when data is null
PipelineContext_onMessage(data) == [threw |-> data = "<null>"]

Range(seq) == {seq[i] : i \in 1..Len(seq)}

\* WebSocket.close() seen through readyState
CloseState(readyState) ==
    IF readyState \in {"CONNECTING", "OPEN"} THEN "CLOSING" ELSE readyState

\* connect(): returns early only when the socket in wsRef is OPEN; otherwise
\* creates a socket and stores it in wsRef
connect(socks, ref) ==
    IF ref # 0 /\ socks[ref] = "OPEN"
    THEN [hookSockets |-> socks, wsRef |-> ref]
    ELSE [hookSockets |-> Append(socks, "CONNECTING"), wsRef |-> Len(socks) + 1]

\* ws.onopen
hook_onopen == [connected |-> TRUE, reconnectAttemptsRef |-> 0]

\* ws.onmessage: the subscribers it calls, in order; the try block holds the
\* parse, the onMessage option and the forEach, so a throw of any of them ends
\* the handler in the catch
hook_onmessage(subs, data) ==
    LET parsed == JSONParse(data)
    IN  IF parsed.threw THEN <<>>
        ELSE IF PipelineContext_onMessage(parsed.value).threw THEN <<>>
        ELSE subs

\* ws.onclose with the comparison <= in place of <
hook_oncloseInclusive(attempts, ws, timeoutRef, pending) ==
    IF attempts <= maxReconnectAttempts
    THEN [connected |-> FALSE, reconnectAttemptsRef |-> attempts + 1,
          reconnectTimeoutRef |-> ws, timeouts |-> pending \cup {ws}]
    ELSE [connected |-> FALSE, reconnectAttemptsRef |-> attempts,
          reconnectTimeoutRef |-> timeoutRef, timeouts |-> pending]

\* ws.onclose of socket ws
hook_onclose(attempts, ws, timeoutRef, pending) ==
    IF attempts < maxReconnectAttempts
    THEN [connected |-> FALSE, reconnectAttemptsRef |-> attempts + 1,
          reconnectTimeoutRef |-> ws, timeouts |-> pending \cup {ws}]
    ELSE [connected |-> FALSE, reconnectAttemptsRef |-> attempts,
          reconnectTimeoutRef |-> timeoutRef, timeouts |-> pending]

\* disconnect(): clears the timer reconnectTimeoutRef names, closes the socket
\* in wsRef and forgets it
hook_disconnect(socks, ref, timeoutRef, pending) ==
    [timeouts    |-> IF timeoutRef # 0 THEN pending \ {timeoutRef} ELSE pending,
     hookSockets |-> IF ref # 0
                     THEN [socks EXCEPT ![ref] = CloseState(@)]
                     ELSE socks,
     wsRef       |-> 0,
     connected   |-> FALSE]

\* sendMessage(data): TRUE when it sends
sendMessage(socks, ref) == ref # 0 /\ socks[ref] = "OPEN"

\* subscribe(callback): Set.add
subscribe(subs, callback) ==
    IF callback \in Range(subs) THEN subs ELSE Append(subs, callback)

\* unsubscribe(callback), and the disposer subscribe returns: Set.delete
unsubscribe(subs, callback) == SelectSeq(subs, LAMBDA cb : cb # callback)

\* connect() called by the caller or by the mount effect
HookConnect ==
    /\ LET r == connect(hookSockets, wsRef)
       IN  /\ Len(r.hookSockets) <= MaxHookSockets
           /\ hookSockets' = r.hookSockets
           /\ wsRef' = r.wsRef
           /\ hookLast' = HookEvent("connect")
    /\ disconnected' = FALSE
    /\ UNCHANGED <<connected, reconnectAttemptsRef, reconnectTimeoutRef,
                   timeouts, subscribersRef, failedAttempts, subscribedAtClose, socketsAtClose,
                   pmVars, wsVars, pageVars, landingVars>>

\* disconnect() called by the caller or by the effect's cleanup
HookDisconnect ==
    /\ LET r == hook_disconnect(hookSockets, wsRef, reconnectTimeoutRef, timeouts)
       IN  /\ hookSockets' = r.hookSockets
           /\ wsRef' = r.wsRef
           /\ timeouts' = r.timeouts
           /\ connected' = r.connected
    /\ hookLast' = HookEvent("none")
    /\ disconnected' = TRUE
    /\ UNCHANGED <<reconnectAttemptsRef, reconnectTimeoutRef, subscribersRef,
                   failedAttempts, subscribedAtClose, socketsAtClose,
                   pmVars, wsVars, pageVars, landingVars>>

\* the open event of a connecting socket
HookOpen(ws) ==
    /\ hookSockets[ws] = "CONNECTING"
    /\ hookSockets' = [hookSockets EXCEPT ![ws] = "OPEN"]
    /\ connected' = hook_onopen.connected
    /\ reconnectAttemptsRef' = hook_onopen.reconnectAttemptsRef
    /\ failedAttempts' = 0
    /\ hookLast' = HookEvent("none")
    /\ UNCHANGED <<wsRef, reconnectTimeoutRef, timeouts, subscribersRef,
                   disconnected, subscribedAtClose, socketsAtClose,
                   pmVars, wsVars, pageVars, landingVars>>

\* the close event of a socket: the connection failed, the peer closed it, or the
\* close handshake started by close() finished
HookClose(ws) ==
    /\ hookSockets[ws] # "CLOSED"
    /\ hookSockets' = [hookSockets EXCEPT ![ws] = "CLOSED"]
    /\ LET r == hook_onclose(reconnectAttemptsRef, ws, reconnectTimeoutRef, timeouts)
       IN  /\ connected' = r.connected
           /\ reconnectAttemptsRef' = r.reconnectAttemptsRef
           /\ reconnectTimeoutRef' = r.reconnectTimeoutRef
           /\ timeouts' = r.timeouts
    /\ failedAttempts' =
           IF hookSockets[ws] = "CONNECTING" /\ failedAttempts <= maxReconnectAttempts
           THEN failedAttempts + 1
           ELSE failedAttempts
    /\ subscribedAtClose' = Range(subscribersRef)
    /\ socketsAtClose' = Len(hookSockets)
    /\ hookLast' = HookEvent("none")
    /\ UNCHANGED <<wsRef, subscribersRef, disconnected, pmVars, wsVars, pageVars, landingVars>>

\* a message event on a socket of the instance (fired only while it is OPEN)
HookMessage(ws, frame) ==
    /\ hookSockets[ws] = "OPEN"
    /\ hookLast' = [ev |-> "message", ws |-> ws, frame |-> frame,
                    delivered |-> hook_onmessage(subscribersRef, frame)]
    /\ UNCHANGED <<hookSockets, wsRef, connected, reconnectAttemptsRef,
                   reconnectTimeoutRef, timeouts, subscribersRef, disconnected,
                   failedAttempts, subscribedAtClose, socketsAtClose,
                   pmVars, wsVars, pageVars, landingVars>>

\* reconnect timer t fires: its callback calls connect()
ReconnectTimeout(t) ==
    /\ t \in timeouts
    /\ timeouts' = timeouts \ {t}
    /\ LET r == connect(hookSockets, wsRef)
       IN  /\ Len(r.hookSockets) <= MaxHookSockets
           /\ hookSockets' = r.hookSockets
           /\ wsRef' = r.wsRef
    /\ hookLast' = HookEvent("none")
    /\ UNCHANGED <<connected, reconnectAttemptsRef, reconnectTimeoutRef,
                   subscribersRef, disconnected, failedAttempts, subscribedAtClose, socketsAtClose,
                   pmVars, wsVars, pageVars, landingVars>>

SendMessage ==
    /\ hookLast' = HookEvent(IF sendMessage(hookSockets, wsRef)
                             THEN "sent" ELSE "none")
    /\ UNCHANGED <<hookSockets, wsRef, connected, reconnectAttemptsRef,
                   reconnectTimeoutRef, timeouts, subscribersRef, disconnected,
                   failedAttempts, subscribedAtClose, socketsAtClose,
                   pmVars, wsVars, pageVars, landingVars>>

Subscribe(callback) ==
    /\ subscribersRef' = subscribe(subscribersRef, callback)
    /\ hookLast' = HookEvent("none")
    /\ UNCHANGED <<hookSockets, wsRef, connected, reconnectAttemptsRef,
                   reconnectTimeoutRef, timeouts, disconnected, failedAttempts, subscribedAtClose, socketsAtClose,
                   pmVars, wsVars, pageVars, landingVars>>

Unsubscribe(callback) ==
    /\ subscribersRef' = unsubscribe(subscribersRef, callback)
    /\ subscribedAtClose' = subscribedAtClose \ {callback}
    /\ hookLast' = HookEvent("unsubscribe")
    /\ UNCHANGED <<hookSockets, wsRef, connected, reconnectAttemptsRef,
                   reconnectTimeoutRef, timeouts, disconnected, failedAttempts,
                   socketsAtClose, pmVars, wsVars, pageVars, landingVars>>

NextHook ==
    \/ HookConnect
    \/ HookDisconnect
    \/ \E ws \in 1..Len(hookSockets) : HookOpen(ws)
    \/ \E ws \in 1..Len(hookSockets) : HookClose(ws)
    \/ \E ws \in 1..Len(hookSockets), frame \in HookFrames : HookMessage(ws, frame)
    \/ \E t \in timeouts : ReconnectTimeout(t)
    \/ SendMessage
    \/ \E callback \in Subscribers : Subscribe(callback)
    \/ \E callback \in Subscribers : Unsubscribe(callback)

SpecHook == Init /\ [][NextHook]_vars

(***************************************************************************)
(* The pipeline page: handlers of frontend/js/pipeline.js on the           *)
(* PipelineManager singleton                                               *)
(***************************************************************************)

\* the values typed into the #pipeline-name input
NameInputs == {"", " ", "p"}

\* the objects saveAgentConfig builds from the modal's form: every field of the
\* form is there, and the switch has no 'herald' case
FormConfigs(agentId) ==
    IF agentId = "herald"
    THEN {[k \in {} |-> ""]}
    ELSE {f \in StringConfigs(agentId) : DOMAIN f = ConfigKeys(agentId)}

\* updateUI: the value it gives submitBtn.disabled
updateUI(en, cfgs, nameValue) ==
    ~isReadyToSubmit(en, cfgs) \/ ~Truthy(Trim(nameValue))

\* handleSubmit that checks the name only
handleSubmitNameOnly(en, cfgs, nameValue) ==
    LET name == Trim(nameValue)
    IN  IF ~Truthy(name) THEN [submitted |-> FALSE, name |-> name]
        ELSE [submitted |-> TRUE, name |-> name]

\* handleSubmit up to its first await: whether it reaches API.createPipeline,
\* and the name it read
handleSubmit(en, cfgs, nameValue) ==
    LET name == Trim(nameValue)
    IN  IF ~Truthy(name) THEN [submitted |-> FALSE, name |-> name]
        ELSE IF ~isReadyToSubmit(en, cfgs) THEN [submitted |-> FALSE, name |-> name]
        ELSE [submitted |-> TRUE, name |-> name]

\* the stages a payload marks enabled
PayloadEnabled(payload) == {a \in Agents : payload.agent_configs[a].enabled}

InFlightPhases == {"createPipeline", "createTask"}

\* what is kept of a handleSubmit call that has returned
Settled(phase) == [phase |-> phase, name |-> "", enabled |-> {}, edited |-> FALSE]

\* a handler changed the manager while submissions were awaiting the API
MarkEdited(subs, changed) ==
    [i \in 1..Len(subs) |->
        IF changed /\ subs[i].phase \in InFlightPhases
        THEN [subs[i] EXCEPT !.edited = TRUE]
        ELSE subs[i]]

\* an input event on #pipeline-name: the listener is updateUI
NameInput(value) ==
    /\ nameInput' = value
    /\ submitDisabled' = updateUI(enabledAgents, agentConfigs, value)
    /\ UNCHANGED <<submissions, pmVars, wsVars, hookVars, landingVars>>

\* a change event on the toggle of a stage; updateUI left the toggle disabled
\* when the stage is neither enabled nor can be enabled
HandleAgentToggle(agentId) ==
    /\ canEnableAgent(enabledAgents, agentId) \/ agentId \in enabledAgents
    /\ LET enabled == agentId \notin enabledAgents
           r == setAgentEnabled(enabledAgents, agentConfigs, agentId, enabled)
       IN  IF ~r.ret.success
           THEN UNCHANGED <<enabledAgents, agentConfigs, submitDisabled, submissions>>
           ELSE /\ enabledAgents' = r.enabledAgents
                /\ agentConfigs' = r.agentConfigs
                /\ submitDisabled' =
                       updateUI(r.enabledAgents, r.agentConfigs, nameInput)
                /\ submissions' =
                       MarkEdited(submissions,
                                  r.enabledAgents # enabledAgents
                                    \/ r.agentConfigs # agentConfigs)
    /\ UNCHANGED <<nameInput, configCalls, last, wsVars, hookVars, landingVars>>

\* saveAgentConfig(agentId) from the modal of an enabled stage; configCalls
\* counts the saves since the page loaded
SaveAgentConfig(agentId, config) ==
    /\ agentId \in enabledAgents
    /\ configCalls < MaxConfigCalls
    /\ configCalls' = configCalls + 1
    /\ LET cfgs == setAgentConfig(agentConfigs, agentId, config)
       IN  /\ agentConfigs' = cfgs
           /\ submitDisabled' = updateUI(enabledAgents, cfgs, nameInput)
           /\ submissions' = MarkEdited(submissions, cfgs # agentConfigs)
    /\ UNCHANGED <<nameInput, enabledAgents, last, wsVars, hookVars, landingVars>>

\* a click on #submit-pipeline (a disabled button fires none): handleSubmit runs
\* up to its first await
ClickSubmit ==
    /\ ~submitDisabled
    /\ Len(submissions) < MaxSubmissions
    /\ LET h == handleSubmit(enabledAgents, agentConfigs, nameInput)
           payload == buildPayload(enabledAgents, agentConfigs, h.name, "p")
       IN  IF h.submitted
           THEN /\ submitDisabled' = TRUE
                /\ submissions' =
                       Append(submissions,
                              [phase |-> "createPipeline", name |-> payload.name,
                               enabled |-> PayloadEnabled(payload),
                               edited |-> FALSE])
           ELSE UNCHANGED <<submitDisabled, submissions>>
    /\ UNCHANGED <<nameInput, pmVars, wsVars, hookVars, landingVars>>

\* API.createPipeline of submission i settles: handleSubmit goes on to
\* API.createTask, or to catch and finally
CreatePipelineSettles(i, ok) ==
    /\ submissions[i].phase = "createPipeline"
    /\ IF ok
       THEN /\ submissions' = [submissions EXCEPT ![i].phase = "createTask"]
            /\ UNCHANGED submitDisabled
       ELSE /\ submissions' = [submissions EXCEPT ![i] = Settled("failed")]
            /\ submitDisabled' = FALSE
    /\ UNCHANGED <<nameInput, pmVars, wsVars, hookVars, landingVars>>

\* API.createTask of submission i settles: on success the form and the manager
\* are reset and updateUI runs; finally re-enables the button either way
CreateTaskSettles(i, ok) ==
    /\ submissions[i].phase = "createTask"
    /\ IF ok
       THEN LET r == reset(enabledAgents, agentConfigs)
            IN  /\ submissions' = [submissions EXCEPT ![i] = Settled("done")]
                /\ nameInput' = ""
                /\ enabledAgents' = r.enabledAgents
                /\ agentConfigs' = r.agentConfigs
       ELSE /\ submissions' = [submissions EXCEPT ![i] = Settled("failed")]
            /\ UNCHANGED <<nameInput, enabledAgents, agentConfigs>>
    /\ submitDisabled' = FALSE
    /\ UNCHANGED <<configCalls, last, wsVars, hookVars, landingVars>>

NextPage ==
    \/ \E value \in NameInputs : NameInput(value)
    \/ \E agentId \in Agents : HandleAgentToggle(agentId)
    \/ \E agentId \in Agents : \E config \in FormConfigs(agentId) :
          SaveAgentConfig(agentId, config)
    \/ ClickSubmit
    \/ \E i \in 1..Len(submissions), ok \in BOOLEAN : CreatePipelineSettles(i, ok)
    \/ \E i \in 1..Len(submissions), ok \in BOOLEAN : CreateTaskSettles(i, ok)

SpecPage == Init /\ [][NextPage]_vars

(***************************************************************************)
(* The Landing component: canToggleAgent / toggleAgent over the            *)
(* enabledAgents state of useState                                          *)
(***************************************************************************)

\* the agents array of the component, in its order
LandingAgents == <<"scribe", "architect", "forge", "sentinel", "phoenix">>

\* agents.findIndex(a => a.id === agentId), counted from 1
LandingIndex(agentId) == CHOOSE i \in 1..Len(LandingAgents) : LandingAgents[i] = agentId

\* the values useState(new Set(...)) starts from in the variants of the component
LandingInitials == {{}, {LandingAgents[i] : i \in 1..Len(LandingAgents)}}

\* canToggleAgent(agentId) of a render whose enabledAgents is en
canToggleAgent(en, agentId) ==
    LET agentIndex == LandingIndex(agentId)
    IN  IF agentId \in en
        THEN \A i \in (agentIndex + 1)..Len(LandingAgents) : LandingAgents[i] \notin en
        ELSE \A i \in 1..(agentIndex - 1) : LandingAgents[i] \in en

\* the updater toggleAgent hands to setEnabledAgents, applied to prev
toggleUpdater(prev, agentId) ==
    IF agentId \in prev THEN prev \ {agentId} ELSE prev \cup {agentId}

\* toggleAgent(agentId) of a render whose enabledAgents is en: the queue of
\* updaters after the call
toggleAgent(en, queue, agentId) ==
    IF ~canToggleAgent(en, agentId) THEN queue ELSE Append(queue, agentId)

RECURSIVE ApplyUpdaters(_, _)
\* React runs the queued updaters in order, each on the result of the one before
ApplyUpdaters(state, queue) ==
    IF queue = <<>> THEN state
    ELSE ApplyUpdaters(toggleUpdater(state, Head(queue)), Tail(queue))

\* the first render of a variant of the component
LandingMount(initial) ==
    /\ ~mounted
    /\ mounted' = TRUE
    /\ landingEnabledAgents' = initial
    /\ renderedEnabledAgents' = initial
    /\ updaters' = <<>>
    /\ UNCHANGED <<pmVars, wsVars, hookVars, pageVars>>

\* a toggleAgent(agentId) call on the closures of the last render
ToggleAgent(agentId) ==
    /\ mounted
    /\ Len(updaters) < MaxPending
    /\ updaters' = toggleAgent(renderedEnabledAgents, updaters, agentId)
    /\ UNCHANGED <<landingEnabledAgents, renderedEnabledAgents, mounted>>
    /\ UNCHANGED <<pmVars, wsVars, hookVars, pageVars>>

\* React processes the queued updaters and renders the component again
Render ==
    /\ mounted
    /\ updaters # <<>>
    /\ LET next == ApplyUpdaters(landingEnabledAgents, updaters)
       IN  /\ landingEnabledAgents' = next
           /\ renderedEnabledAgents' = next
    /\ updaters' = <<>>
    /\ UNCHANGED <<mounted, pmVars, wsVars, hookVars, pageVars>>

NextLanding ==
    \/ \E initial \in LandingInitials : LandingMount(initial)
    \/ \E i \in 1..Len(LandingAgents) : ToggleAgent(LandingAgents[i])
    \/ Render

SpecLanding == Init /\ [][NextLanding]_vars

(***************************************************************************)
(* Properties                                                              *)
(***************************************************************************)
\* the stages ordered before / not before a stage of AGENT_ORDER
EarlierStages(a) == {b \in Agents : IndexOf(b) < IndexOf(a)}
LaterOrSelf(a) == {b \in Agents : IndexOf(b) >= IndexOf(a)}

IsPrefix(S) == \A a \in S : EarlierStages(a) \subseteq S

\* the lowest-ordered stage of a non-empty set of stages
Lowest(S) == CHOOSE a \in S : \A b \in S : IndexOf(a) <= IndexOf(b)

ErrorNaming(stage) == "Please enable " \o ToUpperCase(stage) \o " first"

RECURSIVE SumOver(_, _)
SumOver(S, field) ==
    IF S = {} THEN 0
    ELSE LET a == CHOOSE x \in S : TRUE
         IN  TOKEN_ESTIMATES[a][field] + SumOver(S \ {a}, field)

\* C1: after any sequence of setAgentEnabled, setAgentConfig and reset calls the
\* enabled set is a contiguous prefix of AGENT_ORDER: no stage is enabled while
\* an earlier stage is disabled.
C1_PrefixEnablement == IsPrefix(enabledAgents)

\* a disable of a middle stage, after some config was stored, left a proper,
\* non-empty prefix
C1_Witness ==
    /\ last.op = "setAgentEnabled" /\ last.arg = FALSE
    /\ last.agentId = "forge" /\ last.pre = Agents
    /\ enabledAgents = {"scribe", "architect"}
    /\ configCalls > 0

\* C2: whenever setAgentEnabled returns success = false, the enabled set and
\* every stage's config record (its enabled flag included) are what they were
\* before the call.
C2_RejectionAtomic ==
    [][(last'.op = "setAgentEnabled" /\ ~last'.ret.success)
         => (enabledAgents' = enabledAgents /\ agentConfigs' = agentConfigs)]_vars

\* a rejected enable on a manager with an enabled stage and stored config
C2_Witness ==
    /\ last.op = "setAgentEnabled" /\ ~last.ret.success
    /\ last.agentId = "herald"
    /\ enabledAgents = {"scribe"}
    /\ configCalls > 0

\* C3: setAgentEnabled(K, false) always succeeds, and the enabled set after it is
\* the set before it minus K and every stage ordered after K (earlier stages
\* keep their status).
C3_CascadingDisable ==
    [][(last'.op = "setAgentEnabled" /\ last'.arg = FALSE)
         => /\ last'.ret.success
            /\ enabledAgents' = enabledAgents \ LaterOrSelf(last'.agentId)
            /\ \A a \in EarlierStages(last'.agentId) :
                  (a \in enabledAgents') = (a \in enabledAgents)]_vars

\* all stages enabled, 'architect' disabled: only 'scribe' stays enabled
C3_Witness ==
    /\ last.op = "setAgentEnabled" /\ last.arg = FALSE
    /\ last.agentId = "architect" /\ last.pre = Agents
    /\ last.ret.success
    /\ enabledAgents = {"scribe"}

\* C4: setAgentEnabled(K, true) fails iff some stage ordered before K is not
\* enabled, the error then names the lowest-ordered such stage; otherwise it
\* succeeds and the enabled set is the previous one plus K.
C4_EnableRule ==
    [][(last'.op = "setAgentEnabled" /\ last'.arg = TRUE)
         => LET K == last'.agentId
                missing == EarlierStages(K) \ enabledAgents
            IN  /\ (~last'.ret.success) <=> (missing # {})
                /\ missing # {} => last'.ret.error = ErrorNaming(Lowest(missing))
                /\ missing = {} => enabledAgents' = enabledAgents \cup {K}]_vars

\* enabling 'sentinel' with only 'scribe' enabled is refused and names ARCHITECT,
\* the lowest of the three missing stages
C4_Witness ==
    /\ last.op = "setAgentEnabled" /\ last.arg = TRUE
    /\ last.agentId = "sentinel" /\ last.pre = {"scribe"}
    /\ ~last.ret.success
    /\ last.ret.error = "Please enable ARCHITECT first"

\* C5: in every reachable state canEnableAgent(S) is true iff every stage ordered
\* before S is enabled (always for the first stage), which is exactly when
\* setAgentEnabled(S, true) would succeed; the call changes no state.
C5_CanEnableAgent ==
    /\ [](\A S \in Agents :
            /\ canEnableAgent(enabledAgents, S) <=> (EarlierStages(S) \subseteq enabledAgents)
            /\ canEnableAgent(enabledAgents, S)
                 <=> setAgentEnabled(enabledAgents, agentConfigs, S, TRUE).ret.success)
    /\ [](canEnableAgent(enabledAgents, AGENT_ORDER[1]))
    /\ [][last'.op = "canEnableAgent"
            => /\ enabledAgents' = enabledAgents /\ agentConfigs' = agentConfigs
               /\ last'.ret.value
                    <=> (EarlierStages(last'.agentId) \subseteq enabledAgents)]_vars

\* canEnableAgent('herald') answered false with the first two stages enabled
C5_Witness ==
    /\ last.op = "canEnableAgent" /\ last.agentId = "herald"
    /\ ~last.ret.value
    /\ enabledAgents = {"scribe", "architect"}

\* C6: calculateEstimate returns one entry per enabled stage, in AGENT_ORDER
\* order, and totals equal to the sums of the TOKEN_ESTIMATES entries of exactly
\* the enabled stages (scribe+architect: 6500 / 0.13; scribe: 2500 / 0.05;
\* nothing: 0 / 0); the call changes no state.
C6_Estimate ==
    /\ [](LET r == calculateEstimate(enabledAgents)
              n == Len(r.agents)
          IN  /\ n = Cardinality(enabledAgents)
              /\ {r.agents[i].agent : i \in 1..n} = enabledAgents
              /\ \A i, j \in 1..n :
                    i < j => IndexOf(r.agents[i].agent) < IndexOf(r.agents[j].agent)
              /\ \A i \in 1..n :
                    /\ r.agents[i].tokens = TOKEN_ESTIMATES[r.agents[i].agent].tokens
                    /\ r.agents[i].cost = TOKEN_ESTIMATES[r.agents[i].agent].cost
              /\ r.totalTokens = SumOver(enabledAgents, "tokens")
              /\ r.totalCost = ToFixed2(SumOver(enabledAgents, "cost"))
              /\ enabledAgents = {"scribe", "architect"}
                    => r.totalTokens = 6500 /\ r.totalCost = "0.13"
              /\ enabledAgents = {"scribe"}
                    => r.totalTokens = 2500 /\ r.totalCost = "0.05"
              /\ enabledAgents = {}
                    => r.totalTokens = 0 /\ r.totalCost = "0.00")
    /\ [][last'.op = "calculateEstimate"
            => /\ enabledAgents' = enabledAgents /\ agentConfigs' = agentConfigs
               /\ last'.ret = calculateEstimate(enabledAgents)]_vars

\* the estimate taken once 'architect' was disabled again: back to 2500 / 0.05
C6_Witness ==
    /\ last.op = "calculateEstimate"
    /\ enabledAgents = {"scribe"}
    /\ agentConfigs["architect"]["enabled"] = FALSE
    /\ "target_branch" \in DOMAIN agentConfigs["forge"]
    /\ last.ret.totalTokens = 2500 /\ last.ret.totalCost = "0.05"

\* C7: isReadyToSubmit() is true iff at least one stage is enabled and every
\* enabled stage is configured; what disabled stages hold never matters.
C7_ReadyToSubmit ==
    /\ isReadyToSubmit(enabledAgents, agentConfigs)
         <=> /\ enabledAgents # {}
             /\ \A a \in enabledAgents : isAgentConfigured(agentConfigs, a)
    /\ \A a \in Agents \ enabledAgents : \A config \in PartialConfigs(a) :
          isReadyToSubmit(enabledAgents, setAgentConfig(agentConfigs, a, config))
            = isReadyToSubmit(enabledAgents, agentConfigs)
    /\ last.op = "isReadyToSubmit"
         => (last.ret.value <=> /\ enabledAgents # {}
                                /\ \A a \in enabledAgents :
                                      isAgentConfigured(agentConfigs, a))

\* ready with two stages enabled and configured while a disabled stage is not
C7_Witness ==
    /\ last.op = "isReadyToSubmit" /\ last.ret.value
    /\ enabledAgents = {"scribe", "architect"}
    /\ ~isAgentConfigured(agentConfigs, "forge")

\* C8: buildPayload returns agent_configs with exactly one entry per stage of
\* AGENT_ORDER, each with a boolean 'enabled' equal to the stage's membership in
\* the enabled set at call time; the call changes no state.
C8_PayloadComplete ==
    /\ [](\A name \in Names :
            LET p == buildPayload(enabledAgents, agentConfigs, name, "p")
            IN  /\ DOMAIN p.agent_configs = Agents
                /\ \A a \in Agents :
                      /\ p.agent_configs[a].enabled \in BOOLEAN
                      /\ p.agent_configs[a].enabled <=> (a \in enabledAgents))
    /\ [][last'.op = "buildPayload"
            => /\ enabledAgents' = enabledAgents /\ agentConfigs' = agentConfigs
               /\ DOMAIN last'.ret.agent_configs = Agents
               /\ \A a \in Agents :
                     last'.ret.agent_configs[a].enabled <=> (a \in enabledAgents)]_vars

\* a payload built when only some stages were touched and a stored flag
\* disagrees with the enabled set
C8_Witness ==
    /\ last.op = "buildPayload"
    /\ enabledAgents = {"scribe", "architect"}
    /\ agentConfigs["forge"]["enabled"] = TRUE
    /\ last.ret.agent_configs.forge.enabled = FALSE
    /\ last.ret.agent_configs.scribe.enabled = TRUE

\* C9: after reset() the manager is as freshly constructed: no stage enabled,
\* every config record the initial one (no stage configured by leftovers);
\* reset is idempotent.
C9_ResetRestores ==
    [][last'.op = "reset"
         => /\ enabledAgents' = Constructor.enabledAgents
            /\ agentConfigs' = Constructor.agentConfigs
            /\ \A a \in Agents :
                  isAgentConfigured(agentConfigs', a)
                    = isAgentConfigured(Constructor.agentConfigs, a)
            /\ reset(enabledAgents', agentConfigs')
                 = [enabledAgents |-> enabledAgents', agentConfigs |-> agentConfigs']]_vars

\* a reset of a manager that had stages enabled
C9_Witness ==
    /\ last.op = "reset"
    /\ last.pre = {"scribe", "architect", "forge"}
    /\ enabledAgents = {}

\* the sockets created under a key that are CONNECTING or OPEN
Live(key) ==
    {ws \in 1..Len(sockets) :
        sockets[ws].key = key /\ sockets[ws].readyState \in {"CONNECTING", "OPEN"}}

\* C10: for any interleaving of connect, disconnect and socket open/close events,
\* at most one connection created under a given key is CONNECTING or OPEN.
C10_AtMostOneLive == \A key \in WsKeys : Cardinality(Live(key)) <= 1

\* the newest socket created under a key
Newest(key) ==
    CHOOSE ws \in SocketsOf(sockets, key) : \A o \in SocketsOf(sockets, key) : o <= ws

\* a frame was handed to the callback of socket ws in the last event
DeliveredOn(ws) ==
    wsLast.ev = "message" /\ wsLast.ws = ws /\ wsLast.invoked # ""

\* C11: after connect(key, .., cb1) followed by connect(key, .., cb2) exactly one
\* live connection exists under key and cb1 is not invoked for later frames: a
\* socket that a later connect on its key replaced is neither live nor
\* delivering.
C11_ReplaceSemantics ==
    \A key \in WsKeys : \A ws \in SocketsOf(sockets, key) :
        ws # Newest(key)
          => /\ sockets[ws].readyState \notin {"CONNECTING", "OPEN"}
             /\ ~DeliveredOn(ws)

\* C12: after disconnect(key) returns no 'ping' is sent and no inbound message
\* is delivered on a connection opened under that key before the call.
C12_SilentAfterDisconnect ==
    /\ (wsLast.ev = "tick" /\ wsLast.sent) => wsLast.ws \notin cut
    /\ \A ws \in cut : ~DeliveredOn(ws)

\* C13: every keep-alive timer still scheduled belongs to a connection that is
\* in the registry.
C13_TimersOwned ==
    \A t \in intervals : \E key \in DOMAIN connections : connections[key].pingInterval = t

\* the close event of hook socket ws happens in this step
CloseStep(ws) == hookSockets[ws] # "CLOSED" /\ hookSockets'[ws] = "CLOSED"

\* the open event of hook socket ws happens in this step
OpenStep(ws) == hookSockets[ws] = "CONNECTING" /\ hookSockets'[ws] = "OPEN"

\* this step creates a socket of the hook
NewSocketStep == Len(hookSockets') > Len(hookSockets)

\* this step schedules a reconnect timer
ScheduleStep == timeouts' \ timeouts # {}

C15_CounterBudget ==
    [][/\ reconnectAttemptsRef' \in 0..maxReconnectAttempts
       /\ ScheduleStep <=> reconnectAttemptsRef' = reconnectAttemptsRef + 1
       /\ reconnectAttemptsRef' \in {reconnectAttemptsRef, reconnectAttemptsRef + 1, 0}
       /\ \A ws \in 1..Len(hookSockets) :
              /\ OpenStep(ws) => reconnectAttemptsRef' = 0
              /\ (CloseStep(ws) /\ hookSockets[ws] = "OPEN")
                    => reconnectAttemptsRef = 0]_vars

\* C16: from a disconnect() call until the caller's next connect(), no reconnect
\* timer is pending and no socket is created.
C16_DisconnectFinal ==
    [][disconnected'
          => /\ timeouts' = {}
             /\ disconnected => ~NewSocketStep]_vars

\* C17: the handler of a successfully parsed frame calls every callback that is
\* subscribed at that moment and no other; an unsubscribe call leaves the
\* sockets, the current socket, the connected flag and the timers alone.
C17_FanOut ==
    [][/\ (hookLast'.ev = "message" /\ ~JSONParse(hookLast'.frame).threw)
              => Range(hookLast'.delivered) = Range(subscribersRef)
       /\ hookLast'.ev = "unsubscribe"
              => /\ hookSockets' = hookSockets
                 /\ wsRef' = wsRef
                 /\ connected' = connected
                 /\ timeouts' = timeouts]_vars

\* C18: a successfully parsed frame is handed to each subscriber exactly once
\* (not skipped, not twice), in the step in which it arrives.
C18_ExactlyOnceInOrder ==
    (hookLast.ev = "message" /\ ~JSONParse(hookLast.frame).threw)
        => \A cb \in Range(subscribersRef) :
               Cardinality({i \in 1..Len(hookLast.delivered) :
                                hookLast.delivered[i] = cb}) = 1

\* a frame that is neither the acknowledgement nor parseable
Malformed(frame) == frame # "pong" /\ ~JsonParses(frame)

\* C19: a malformed inbound frame is handed to no callback and changes neither
\* the socket, the registry nor the keep-alive timers; a well-formed frame that
\* follows it on the same connection is delivered.
C19_MalformedDropped ==
    /\ [][(wsLast'.ev = "message" /\ Malformed(wsLast'.frame))
            => /\ wsLast'.invoked = ""
               /\ sockets' = sockets
               /\ connections' = connections
               /\ intervals' = intervals]_vars
    /\ [][(/\ wsLast.ev = "message" /\ Malformed(wsLast.frame)
           /\ wsLast'.ev = "message" /\ wsLast'.ws = wsLast.ws
           /\ JsonParses(wsLast'.frame))
            => wsLast'.invoked = sockets[wsLast.ws].onMessage]_vars

\* a malformed frame was dropped on an open, registered socket whose timer runs
C19_Witness ==
    /\ wsLast.ev = "message" /\ wsLast.frame = "not json" /\ wsLast.invoked = ""
    /\ sockets[wsLast.ws].readyState = "OPEN"
    /\ sockets[wsLast.ws].key \in DOMAIN connections
    /\ connections[sockets[wsLast.ws].key].ws = wsLast.ws
    /\ wsLast.ws \in intervals

\* C20: a 'pong' frame is never forwarded to the message callback, every other
\* well-formed frame is; 'ping' is sent only by the keep-alive timer and only
\* while the socket is OPEN.
C20_Heartbeat ==
    /\ (wsLast.ev = "message" /\ wsLast.frame = "pong") => wsLast.invoked = ""
    /\ (wsLast.ev = "message" /\ wsLast.frame # "pong" /\ JsonParses(wsLast.frame))
          => wsLast.invoked = sockets[wsLast.ws].onMessage
    /\ wsLast.sent
          => /\ wsLast.ev = "tick"
             /\ wsLast.ws \in intervals
             /\ sockets[wsLast.ws].readyState = "OPEN"

\* the acknowledgement arrived on an open socket and reached nobody
C20_Witness ==
    /\ wsLast.ev = "message" /\ wsLast.frame = "pong" /\ wsLast.invoked = ""
    /\ sockets[wsLast.ws].readyState = "OPEN"
    /\ wsLast.ws \in intervals

\* C21: disconnect(key) on an absent key changes nothing; a second
\* disconnect(key) changes nothing more; disconnectAll() leaves the registry
\* empty, every socket that was registered closing or closed and no keep-alive
\* timer scheduled; a second disconnectAll() changes nothing more.
C21_DisconnectIdempotent ==
    LET now == [sockets |-> sockets, intervals |-> intervals,
                connections |-> connections]
        a == disconnectAll(sockets, connections, intervals, DOMAIN connections)
    IN  /\ \A key \in WsKeys :
              LET d == disconnect(sockets, connections, intervals, key)
              IN  /\ key \notin DOMAIN connections => d = now
                  /\ disconnect(d.sockets, d.connections, d.intervals, key) = d
        /\ DOMAIN a.connections = {}
        /\ \A key \in DOMAIN connections :
              a.sockets[connections[key].ws].readyState \notin {"CONNECTING", "OPEN"}
        /\ a.intervals = {}
        /\ disconnectAll(a.sockets, a.connections, a.intervals, DOMAIN a.connections) = a

\* C23: the close event of a socket that is not the one the registry holds for
\* its key leaves the registry as it is.
C23_RegistryStable ==
    [][\A ws \in 1..Len(sockets) :
          (/\ Len(sockets') = Len(sockets)
           /\ sockets[ws].readyState # "CLOSED"
           /\ sockets'[ws].readyState = "CLOSED"
           /\ sockets[ws].key \in DOMAIN connections
           /\ connections[sockets[ws].key].ws # ws)
             => connections' = connections]_vars

\* a required text field holds something other than blanks
NonBlank(config, key) == Get(config, key) \notin {Undefined, "", " "}

\* a required field holds a non-empty string
NonEmpty(config, key) == Get(config, key) \notin {Undefined, ""}

\* C24: scribe is configured iff its requirement text is non-blank, forge iff
\* repository path and target branch are both non-empty, every other stage is
\* configured in every state.
C24_RequiredFieldsOnly ==
    \A a \in Agents :
        isAgentConfigured(agentConfigs, a)
          = CASE a = "scribe" -> NonBlank(agentConfigs[a], "requirement_text")
              [] a = "forge" -> /\ NonEmpty(agentConfigs[a], "repo_path")
                                /\ NonEmpty(agentConfigs[a], "target_branch")
              [] OTHER -> TRUE

\* C25: in the payload built from the current state every field the model sets
\* is present, and a field stored by setAgentConfig carries the stored value.
C25_PayloadKeepsSetValues ==
    \A name \in Names :
        LET p == buildPayload(enabledAgents, agentConfigs, name, "p")
        IN  \A a \in Agents : \A k \in ConfigKeys(a) :
                /\ k \in DOMAIN p.agent_configs[a]
                /\ k \in DOMAIN agentConfigs[a]
                      => p.agent_configs[a][k] = agentConfigs[a][k]

\* C28: the enabled flag in every stage's config record equals the stage's
\* membership in the enabled set.
C28_FlagMatchesSet ==
    \A a \in Agents : agentConfigs[a]["enabled"] = (a \in enabledAgents)

\* the sockets of the hook instance that are connecting or open
HookLive == {ws \in 1..Len(hookSockets) : hookSockets[ws] \in {"CONNECTING", "OPEN"}}

\* C30: a useWebSocket instance has at most one socket that is CONNECTING or
\* OPEN.
C30_SingleLiveSocket == Cardinality(HookLive) <= 1

\* the submissions of the page that are awaiting the API
InFlight == {i \in 1..Len(submissions) : submissions[i].phase \in InFlightPhases}

\* C22: handleSubmit reaches API.createPipeline only when, as the payload is
\* built, the trimmed pipeline name is non-empty and isReadyToSubmit() is true;
\* the payload submitted has an enabled stage and every stage it enables is
\* configured, whatever toggles, saves and clicks came before
C22_SubmitOnlyWhenReady ==
    [][Len(submissions') > Len(submissions) =>
          /\ Truthy(Trim(nameInput))
          /\ isReadyToSubmit(enabledAgents, agentConfigs)
          /\ LET s == submissions'[Len(submissions')]
             IN  /\ s.name # ""
                 /\ s.enabled # {}
                 /\ s.enabled = enabledAgents
                 /\ \A a \in s.enabled : isAgentConfigured(agentConfigs, a)]_vars

\* a payload has been handed to API.createPipeline after an earlier submission
\* had returned
C22_Witness ==
    /\ Len(submissions) = 2
    /\ submissions[1].phase \in {"done", "failed"}
    /\ submissions[2].phase = "createPipeline"
    /\ submissions[2].enabled # {}

\* C29: at most one handleSubmit is awaiting the API at any time, and the
\* submit control is disabled for as long as one is
C29_SingleSubmission ==
    /\ Cardinality(InFlight) <= 1
    /\ InFlight # {} => submitDisabled

\* the enabled set of the Landing component is a prefix of its agents array
LandingPrefix(en) ==
    \E n \in 0..Len(LandingAgents) : en = {LandingAgents[i] : i \in 1..n}

\* C26: the enabled set of the Landing component is a contiguous prefix of the
\* stage order after any sequence of toggleAgent calls, from the empty and from
\* the all-enabled initial set, two calls on the same render included
C26_LandingPrefix == LandingPrefix(landingEnabledAgents)

\* C27: when a socket of the hook opens, connected becomes true; and once a
\* socket has closed without disconnect() being called, every message that
\* parses on a socket created after the close reaches the subscribers that were
\* registered at the close and still are
C27_ReconnectRestores ==
    [][/\ \A ws \in 1..Len(hookSockets) : OpenStep(ws) => connected'
       /\ (/\ hookLast'.ev = "message"
           /\ ~JSONParse(hookLast'.frame).threw
           /\ ~disconnected
           /\ socketsAtClose > 0
           /\ hookLast'.ws > socketsAtClose)
              => subscribedAtClose \subseteq Range(hookLast'.delivered)]_vars

====
